---- MODULE Spec2Model ----
(***************************************************************************)
(* A model of go.mway.dev/errors: the error combinators of package errors  *)
(* and the Group of package errgroup (Add / Wait / appendError), with one  *)
(* caller goroutine and one worker goroutine per concurrently dispatched   *)
(* thunk.                                                                  *)
(*                                                                         *)
(* Steps.  A goroutine's step ends where another goroutine can observe or  *)
(* change what it does next: the call f() together with the nil and        *)
(* ignored tests of appendError (they read the error and the options,      *)
(* which no one writes) is one step, g.mu.Lock() is one, the locked part   *)
(* of appendError with its deferred Unlock is one, and g.wg.Done() is one. *)
(* Calling a nil func panics; nothing recovers it, so the process is gone  *)
(* and no step follows.  Add and Wait are called from one goroutine.       *)
(***************************************************************************)
EXTENDS Integers, Sequences, FiniteSets, TLC

\* ------------------------------------------------------------------ bounds
\* total number of thunks handed to Add over the lifetime of the Group
MaxThunks == 2
\* number of Wait calls
MaxWaits == 2
\* number of Options values built in the options specification
MaxOptions == 3
\* number of options handed to one With call
MaxOverrides == 2
\* largest number of elements a new backing array has beyond those needed
MaxSpare == 1
\* number of calls of All, AllInline, First and FirstInline
MaxCalls == 2
\* number of errors built in the specification of the combinators
MaxErrors == 4
\* number of errors handed to one Join call
MaxJoin == 3
\* number of thunks handed to one JoinFuncs or AppendFuncs call
MaxFuncs == 3
\* number of errors built before the helpers that take thunks stop
MaxFuncErrors == 3
\* number of errors built before the calls of Wrapf stop
MaxWrapfErrors == 3
\* number of errors built by nesting Join, Wrap and Lazy
MaxNest == 5
\* number of errors handed to one Join when nesting
MaxNestJoin == 2
\* number of errors built before the calls of Append and Combine stop
MaxCombErrors == 3
\* number of errors handed to one Combine
MaxCombine == 3
\* number of goroutines that use one Lazy error
MaxAccessors == 2
\* number of operations each of them invokes on it
MaxOps == 2

\* ------------------------------------------------------------ error values
\* The nil error.
Nil == [kind |-> "nil"]

\* errors.New(text): a root error; id is its identity (the pointer).
New(text, id) == [kind |-> "root", id |-> id, msg |-> text]

\* Lazy(fn): an error with identity id that stands for what fn returns
Lazy(fn, id) == [kind |-> "lazy", id |-> id, fn |-> fn]

\* a Lazy that hands no operation on to what fn returns
LazyOpaque(err) == Nil

\* the error an operation on a Lazy is handed on to: what fn returned when
\* it was evaluated
LazyValue(err) == err.fn.ret

RECURSIVE Message(_)
\* err.Error(), err not nil: the text a root or a wrapper was made with,
\* for an aggregate the messages of its components with "; " between them,
\* for a Lazy the message of its value (the empty text stands for the
\* message of a Lazy whose value is nil)
Message(err) ==
    CASE err.kind = "lazy"   ->
            IF LazyValue(err) = Nil THEN "" ELSE Message(LazyValue(err))
      [] err.kind # "multi"  -> err.msg
      [] Len(err.errs) = 1   -> Message(err.errs[1])
      [] OTHER               ->
            Message(Head(err.errs)) \o "; "
                \o Message([err EXCEPT !.errs = Tail(err.errs)])

\* fmt.Errorf("%s: %w", text, base): a new wrapper with identity id
Errorf(text, base, id) ==
    [kind |-> "wrap", id |-> id, msg |-> text \o ": " \o Message(base), base |-> base]

\* a wrapper whose message leaves out the message of base
WrapBare(base, msg, id) ==
    CASE base = Nil -> Nil
      [] msg = ""   -> base
      [] OTHER      -> [kind |-> "wrap", id |-> id, msg |-> msg, base |-> base]

\* a wrapper that takes the place of the wrapper it is given
WrapFlat(base, msg, id) ==
    CASE base = Nil -> Nil
      [] msg = ""   -> base
      [] OTHER      -> Errorf(msg, IF base.kind = "wrap" THEN base.base ELSE base, id)

\* Wrap(base, msg): fmt.Errorf("%s: %w", msg, base); id is the identity of
\* the freshly allocated wrapper.
Wrap(base, msg, id) ==
    CASE base = Nil -> Nil
      [] msg = ""   -> base
      [] OTHER      -> Errorf(msg, base, id)

\* the operands of a format: integers and errors
IntOp(n) == [int |-> n]
ErrOp(e) == [err |-> e]
IsErrOp(o) == "err" \in DOMAIN o
IntOps(args) == [i \in DOMAIN args |-> IntOp(args[i])]

\* the verbs of a format, the other pieces being plain text
Verbs == {"%d", "%s", "%w"}
VerbChar(verb) ==
    CASE verb = "%d" -> "d"
      [] verb = "%s" -> "s"
      [] verb = "%w" -> "w"

\* the dynamic type of an error as %T prints it
GoType(e) ==
    CASE e.kind = "root" -> "*errors.errorString"
      [] e.kind = "wrap"  -> "*fmt.wrapError"
      [] e.kind = "multi" -> "*errors.joinError"

\* what a verb prints for its operand: %d an integer; %s and %w the message
\* of an error, and %!verb(int=N) for an integer (%d of an error is left out)
PrintVerb(verb, o) ==
    CASE verb = "%d" /\ ~IsErrOp(o) -> ToString(o.int)
      [] verb # "%d" /\ IsErrOp(o)  -> Message(o.err)
      [] verb # "%d" /\ ~IsErrOp(o) ->
            "%!" \o VerbChar(verb) \o "(int=" \o ToString(o.int) \o ")"

RECURSIVE Extras(_)
\* the operands no verb consumed, as type=value with ", " between them
Extras(ops) ==
    LET o == Head(ops)
        one == IF IsErrOp(o) THEN GoType(o.err) \o "=" \o Message(o.err)
               ELSE "int=" \o ToString(o.int)
    IN  IF Len(ops) = 1 THEN one ELSE one \o ", " \o Extras(Tail(ops))

RECURSIVE Format(_, _)
\* the formatting of fmt for a format given as its pieces: each verb takes
\* the next operand, a verb without operand prints %!verb(MISSING), the
\* operands left over print %!(EXTRA ...); wrapped are the errors that %w took
Format(msg, ops) ==
    CASE msg = << >> /\ ops = << >> -> [text |-> "", wrapped |-> << >>]
      [] msg = << >> ->
            [text |-> "%!(EXTRA " \o Extras(ops) \o ")", wrapped |-> << >>]
      [] Head(msg) \in Verbs /\ ops = << >> ->
            LET r == Format(Tail(msg), ops)
            IN  [r EXCEPT !.text = "%!" \o VerbChar(Head(msg)) \o "(MISSING)" \o @]
      [] Head(msg) \in Verbs ->
            LET o == Head(ops)
                r == Format(Tail(msg), Tail(ops))
            IN  [text |-> PrintVerb(Head(msg), o) \o r.text,
                 wrapped |-> (IF Head(msg) = "%w" /\ IsErrOp(o)
                              THEN << o.err >> ELSE << >>) \o r.wrapped]
      [] OTHER ->
            LET r == Format(Tail(msg), ops)
            IN  [r EXCEPT !.text = Head(msg) \o @]

\* fmt.Sprintf(msg, args...) for a format given as its pieces and integer
\* args
Sprintf(msg, args) == Format(msg, IntOps(args)).text

\* fmt.Errorf(msg, ops...): a wrapper of the error that %w took, and an
\* error without predecessor when %w took none
ErrorfW(msg, ops, id) ==
    LET f == Format(msg, ops)
    IN  IF f.wrapped = << >> THEN New(f.text, id)
        ELSE [kind |-> "wrap", id |-> id, msg |-> f.text, base |-> f.wrapped[1]]

\* Wrapf(base, msg, args...) in its version that hands base to the format as
\* the last operand: fmt.Errorf(msg+": %w", append(args, base)...)
WrapfW(base, msg, args, id) ==
    CASE base = Nil                    -> Nil
      [] msg = << >> /\ args = << >>   -> base
      [] OTHER ->
            ErrorfW(msg \o << ": ", "%w" >>, IntOps(args) \o << ErrOp(base) >>, id)

\* Wrapf(base, msg, args...)
Wrapf(base, msg, args, id) ==
    CASE base = Nil                    -> Nil
      [] msg = << >> /\ args = << >>   -> base
      [] OTHER                         -> Errorf(Sprintf(msg, args), base, id)

RECURSIVE Unwrap(_)
\* errors.Unwrap(err): one step down the chain (nil for roots and
\* aggregates); a Lazy hands it on to its value.
Unwrap(err) ==
    CASE err.kind = "wrap" -> err.base
      [] err.kind = "lazy" -> Unwrap(LazyValue(err))
      [] OTHER             -> Nil

\* the flat list of errors an error contributes to a multierr aggregate
Flatten(err) ==
    CASE err = Nil           -> << >>
      [] err.kind = "multi"  -> err.errs
      [] OTHER               -> << err >>

\* multierr's fromSlice: 0 errors is nil, 1 is the error itself, more is an
\* aggregate.
FromSlice(errs) ==
    CASE Len(errs) = 0 -> Nil
      [] Len(errs) = 1 -> errs[1]
      [] OTHER         -> [kind |-> "multi", errs |-> errs]

\* an append that forgets what was accumulated
AppendLossy(left, right) == IF right = Nil THEN left ELSE right

\* an append that puts the new error in front
AppendPrepend(left, right) ==
    CASE left = Nil  -> right
      [] right = Nil -> left
      [] OTHER       -> [kind |-> "multi", errs |-> Flatten(right) \o Flatten(left)]

\* Append(left, right): multierr.Append.
AppendErr(left, right) ==
    CASE left = Nil  -> right
      [] right = Nil -> left
      [] OTHER       -> FromSlice(Flatten(left) \o Flatten(right))

RECURSIVE FlattenAll(_)
\* the errors of errs that are not nil, each aggregate of multierr replaced
\* by its components
FlattenAll(errs) ==
    IF errs = << >> THEN << >>
    ELSE Flatten(Head(errs)) \o FlattenAll(Tail(errs))

\* Combine(errs...): multierr.Combine
Combine(errs) == FromSlice(FlattenAll(errs))

\* a WrapAppend that wraps whatever the combination is
WrapAppendAlways(left, right, msg, id) ==
    IF AppendErr(left, right) = Nil THEN New(msg, id)
    ELSE Wrap(AppendErr(left, right), msg, id)

\* WrapAppend(left, right, msg)
WrapAppend(left, right, msg, id) == Wrap(AppendErr(left, right), msg, id)

\* WrapfAppend(left, right, msg, args...), with the Wrapf of its file
WrapfAppend(left, right, msg, args, id) ==
    WrapfW(AppendErr(left, right), msg, args, id)

\* WrapCombine(msg, errs...)
WrapCombine(msg, errs, id) == Wrap(Combine(errs), msg, id)

RECURSIVE Is(_, _)
\* errors.Is(err, target): target is err, or is reachable from err by
\* unwrapping; an aggregate matches when one of its components does.
Is(err, target) ==
    CASE err = Nil \/ target = Nil -> err = target
      [] err = target              -> TRUE
      [] err.kind = "wrap"         -> Is(err.base, target)
      [] err.kind = "multi"        ->
            \E i \in 1..Len(err.errs) : Is(err.errs[i], target)
      [] err.kind = "lazy"         ->
            LazyValue(err) # Nil /\ Is(LazyValue(err), target)
      [] OTHER                     -> FALSE

\* the errors of errs that are not nil, in their order
NonNil(errs) ==
    LET NotNil(e) == e # Nil
    IN  SelectSeq(errs, NotNil)

\* a Join that wraps a single error too
JoinAlways(errs, id) ==
    IF NonNil(errs) = << >> THEN Nil
    ELSE [kind |-> "multi", id |-> id, errs |-> NonNil(errs)]

\* Join(errs...): nil errors are left out; none left is nil, one left is
\* that error, more are an aggregate with identity id
Join(errs, id) ==
    CASE Len(NonNil(errs)) = 0 -> Nil
      [] Len(NonNil(errs)) = 1 -> NonNil(errs)[1]
      [] OTHER -> [kind |-> "multi", id |-> id, errs |-> NonNil(errs)]

\* the errors of the tests
errA == New("a", 1)
errB == New("b", 2)
errEOF == New("EOF", 3)
\* an error that has io.EOF in its chain
wrapEOF == Wrap(errEOF, "read", 4)

\* -------------------------------------------------------------------- thunks
\* A nil func value.
NilFn == [kind |-> "nilfn"]
\* func() error { return e }
Fn(e) == [kind |-> "fn", ret |-> e]

Results == {Nil, errA, errB, wrapEOF}
ErrFuncs == {NilFn} \cup {Fn(e) : e \in Results}

SeqsUpTo(S, n) == UNION {[1..k -> S] : k \in 0..n}

\* ------------------------------------- the helpers that take thunks
\* the thunks of fns that are called, by their place in fns, in call order:
\* those that are not nil, each once
ThunksCalled(fns) ==
    LET IsFunc(i) == fns[i] # NilFn
    IN  SelectSeq([i \in DOMAIN fns |-> i], IsFunc)

\* results in the order opposite to the calls
ThunkResultsReversed(fns) ==
    LET c == ThunksCalled(fns)
    IN  [i \in DOMAIN c |-> fns[c[Len(c) + 1 - i]].ret]

\* what the called thunks return, in call order
ThunkResults(fns) ==
    LET c == ThunksCalled(fns)
    IN  [i \in DOMAIN c |-> fns[c[i]].ret]

\* JoinFuncs(fns...): the Join of what the thunks return
JoinFuncs(fns, id) == Join(ThunkResults(fns), id)

\* an AppendFunc that puts the new error first
AppendFuncSwapped(err, fn, id) ==
    CASE fn = NilFn   -> err
      [] err = Nil    -> fn.ret
      [] fn.ret = Nil -> err
      [] OTHER        -> Join(<< fn.ret, err >>, id)

\* AppendFunc(err, fn): err when fn is nil; what fn returns when err is nil;
\* else err when fn returns nil, and Join(err, result) when it does not
AppendFunc(err, fn, id) ==
    CASE fn = NilFn   -> err
      [] err = Nil    -> fn.ret
      [] fn.ret = Nil -> err
      [] OTHER        -> Join(<< err, fn.ret >>, id)

\* an AppendFuncs that forgets the error it was given
AppendFuncsNoSeed(err, fns, id) == Join(ThunkResults(fns), id)

\* AppendFuncs(err, fns...): err, if not nil, and then what the thunks
\* return, folded as Join folds
AppendFuncs(err, fns, id) == Join(<< err >> \o ThunkResults(fns), id)

\* ------------------------------------------------------------------ options
\* the zero value of the Options struct, the options of a zero-value Group
ZeroOptions == [FirstOnly |-> FALSE, IgnoredErrors |-> << >>, Inline |-> FALSE]

\* defaults that run the functions in the caller's goroutine
DefaultsInline == [FirstOnly |-> FALSE, IgnoredErrors |-> << >>, Inline |-> TRUE]

\* DefaultOptions(): FirstOnly and Inline are set to false, IgnoredErrors is
\* left out of the literal and so is nil
DefaultOptions == [FirstOnly |-> FALSE, IgnoredErrors |-> << >>, Inline |-> FALSE]

WithFirstOnly == [opt |-> "FirstOnly"]
WithInline == [opt |-> "Inline"]
WithIgnoredErrors(errs) == [opt |-> "IgnoredErrors", errs |-> errs]

\* opt.apply(&o) for the three optionFuncs
ApplyOption(o, opt) ==
    CASE opt.opt = "FirstOnly" -> [o EXCEPT !.FirstOnly = TRUE]
      [] opt.opt = "Inline"    -> [o EXCEPT !.Inline = TRUE]
      [] OTHER                 ->
            [o EXCEPT !.IgnoredErrors = o.IgnoredErrors \o opt.errs]

\* ---------------------------------------- options with their Go slices
\* A slice is a header [arr, len, cap] over a backing array of the heap (a
\* sequence of arrays); arr = 0 is the nil slice.  The slices of the package
\* all start at the first element of their array.
NilSlice == [arr |-> 0, len |-> 0, cap |-> 0]

\* the elements of slice s in heap h
SliceView(h, s) == [i \in 1..s.len |-> h[s.arr][i]]

\* make([]error, len(elems), c) filled with elems: the new heap and the slice
MakeSlice(h, elems, c) ==
    [heap  |-> Append(h, [j \in 1..c |-> IF j <= Len(elems) THEN elems[j] ELSE Nil]),
     slice |-> [arr |-> Len(h) + 1, len |-> Len(elems), cap |-> c]]

\* an append that forgets the elements of s
AppendReplace(h, s, elems, spare) ==
    IF elems = << >> THEN [heap |-> h, slice |-> s]
    ELSE MakeSlice(h, elems, Len(elems) + spare)

\* the builtin append(s, elems...): the elements are written into the array
\* of s when its capacity allows, else into a new array that has room for
\* them and for spare more
GoAppend(h, s, elems, spare) ==
    CASE elems = << >> -> [heap |-> h, slice |-> s]
      [] s.len + Len(elems) <= s.cap ->
            [heap  |-> [h EXCEPT ![s.arr] =
                          [j \in 1..s.cap |->
                              IF j > s.len /\ j <= s.len + Len(elems)
                              THEN elems[j - s.len] ELSE @[j]]],
             slice |-> [s EXCEPT !.len = s.len + Len(elems)]]
      [] OTHER ->
            MakeSlice(h, SliceView(h, s) \o elems, s.len + Len(elems) + spare)

\* an Options value handed to With as an Option
OptionsAsOption(o) == [opt |-> "Options", o |-> o]

\* opt.apply(&o) on the heap h: the new heap and the new *o
Apply(h, o, opt, spare) ==
    CASE opt.opt = "FirstOnly" -> [heap |-> h, o |-> [o EXCEPT !.FirstOnly = TRUE]]
      [] opt.opt = "Inline"    -> [heap |-> h, o |-> [o EXCEPT !.Inline = TRUE]]
      [] opt.opt = "IgnoredErrors" ->
            LET tmp == MakeSlice(h, SliceView(h, o.IgnoredErrors) \o opt.errs,
                                 o.IgnoredErrors.len + Len(opt.errs))
            IN  [heap |-> tmp.heap, o |-> [o EXCEPT !.IgnoredErrors = tmp.slice]]
      [] OTHER ->
            LET src == opt.o
                app == IF src.IgnoredErrors.arr # 0
                       THEN GoAppend(h, o.IgnoredErrors,
                                     SliceView(h, src.IgnoredErrors), spare)
                       ELSE [heap |-> h, slice |-> o.IgnoredErrors]
            IN  [heap |-> app.heap,
                 o    |-> [FirstOnly     |-> src.FirstOnly,
                           IgnoredErrors |-> app.slice,
                           Inline        |-> src.Inline]]

RECURSIVE OptionsWith(_, _, _, _)
\* o.With(opts...) on the heap h: o is the callee's copy of the receiver,
\* spares[i] the spare room of the array the i-th option may allocate
OptionsWith(h, o, opts, spares) ==
    IF opts = << >> THEN [heap |-> h, o |-> o]
    ELSE LET r == Apply(h, o, Head(opts), Head(spares))
         IN  OptionsWith(r.heap, r.o, Tail(opts), Tail(spares))

RECURSIVE With(_, _)
\* o.With(opts...): apply the options left to right to a copy of o
With(o, opts) ==
    IF opts = << >> THEN o
    ELSE With(ApplyOption(o, Head(opts)), Tail(opts))

OptionSet == {WithFirstOnly, WithInline, WithIgnoredErrors(<< errEOF >>)}

\* the option lists New is called with: every list without a repeated option
OptionLists ==
    {opts \in SeqsUpTo(OptionSet, Cardinality(OptionSet)) :
        \A i, j \in DOMAIN opts : opts[i] = opts[j] => i = j}

\* --------------------------------------------------------------------- state
VARIABLES
    options,    \* g.options
    err,        \* g.err
    mu,         \* g.mu: [held, by], by = 0 is the caller's goroutine
    wg,         \* g.wg: the WaitGroup counter
    thunks,     \* every function Add has reached: [fn, inline, pc, res]
    cpc,        \* where the caller's goroutine is
    cfns,       \* the arguments of the Add call in progress
    ci,         \* the index of the Add loop
    rets,       \* what the Wait calls returned, in order: [err, n], n the
                \* number of thunks Add had been given by then
    retOrder,   \* the thunks in the order in which their calls returned
    lockOrder,  \* the thunks in the order in which appendError got the lock
    panicked,   \* a nil func was called: the process is gone
    \* the options specification
    heap,       \* the backing arrays of the IgnoredErrors slices
    ovals,      \* the Options values the program holds
    oviews,     \* for each of them, its fields as they were when it was built
    olast,      \* the last With call: receiver, options, result
    \* the specification of All, AllInline, First and FirstInline
    docall,     \* the call in progress: [name, fns], or NoCall
    dolog,      \* the calls that returned: [name, fns, res, locks]
    \* the specification of the combinators
    pool,       \* the errors the program has built
    nextId,     \* the identity the next allocated error gets
    elast,      \* the last call: [op, its arguments, res, isNew]
    \* the specification of Lazy
    lonce,      \* the guard of the Lazy error: "new", "running" or "done"
    lval,       \* the memoized result of fn
    lcount,     \* how many times fn was executed
    lacc        \* the accessors: [pc, op, seen], seen the results they got

groupVars == << options, err, mu, wg, thunks, cpc, cfns, ci, rets, retOrder, lockOrder, panicked >>
optVars == << heap, ovals, oviews, olast >>
doVars == << docall, dolog >>
errVars == << pool, nextId, elast >>
\* what no step of a Group touches
lazyVars == << lonce, lval, lcount, lacc >>
otherVars == << optVars, doVars, errVars, lazyVars >>
\* what no step of the other specifications touches
notOptVars == << groupVars, doVars, errVars, lazyVars >>
notDoVars == << optVars, errVars, lazyVars >>
notErrVars == << groupVars, optVars, doVars, lazyVars >>
notLazyVars == << groupVars, optVars, doVars, errVars >>
vars == << groupVars, otherVars >>

Free == [held |-> FALSE, by |-> 0]
HeldBy(c) == [held |-> TRUE, by |-> c]

\* the goroutine that runs thunk t: the caller (0) when inline
Ctx(t) == IF thunks[t].inline THEN 0 ELSE t

T == DOMAIN thunks

NoCall == [kind |-> "none"]

\* no Options value has been built
OptIdle ==
    /\ heap = << >>
    /\ ovals = << >>
    /\ oviews = << >>
    /\ olast = NoCall

\* no call of All, AllInline, First or FirstInline was made
DoIdle ==
    /\ docall = NoCall
    /\ dolog = << >>

\* no error has been built
ErrIdle ==
    /\ pool = {}
    /\ nextId = 1
    /\ elast = NoCall

Accessors == 1..MaxAccessors

\* Lazy(fn) has returned and no operation was invoked on the error
LazyIdle ==
    /\ lonce = "new"
    /\ lval = Nil
    /\ lcount = 0
    /\ lacc = [a \in Accessors |-> [pc |-> "idle", op |-> "", seen |-> << >>]]

OtherIdle == OptIdle /\ DoIdle /\ ErrIdle /\ LazyIdle

\* New(opts...): a Group with DefaultOptions().With(opts...), or a zero-value
\* Group (var g Group), whose fields are all zero
Init ==
    /\ \/ \E opts \in OptionLists : options = With(DefaultOptions, opts)
       \/ options = ZeroOptions
    /\ err = Nil
    /\ mu = Free
    /\ wg = 0
    /\ thunks = << >>
    /\ cpc = "idle"
    /\ cfns = << >>
    /\ ci = 1
    /\ rets = << >>
    /\ retOrder = << >>
    /\ lockOrder = << >>
    /\ panicked = FALSE
    /\ OtherIdle

\* ------------------------------------------------------- the caller: Add
\* g.Add(fns...) is called
AddCall ==
    /\ ~panicked
    /\ cpc = "idle"
    /\ \E fns \in SeqsUpTo(ErrFuncs, MaxThunks - Len(thunks)) : cfns' = fns
    /\ cpc' = "add"
    /\ ci' = 1
    /\ UNCHANGED << options, err, mu, wg, thunks, rets, retOrder, lockOrder, panicked >>
    /\ UNCHANGED otherVars

\* a loop that stops one function short
LoopDoneEarly(i, fns) == i >= Len(fns)

\* a loop that stops when FirstOnly has its error
LoopDoneShort(i, fns) == i > Len(fns) \/ (options.FirstOnly /\ err # Nil)

\* the range loop of line 66 or 72 has gone through fns
LoopDone(i, fns) == i > Len(fns)

NewThunk(f, inline) == [fn |-> f, inline |-> inline, pc |-> "running", res |-> Nil]

\* an Add that never runs its functions inline
NeverInline(o) == FALSE

\* the test of line 65
IsInline(o) == o.Inline

\* one iteration of the loop of lines 66-68: the caller is about to run
\* g.appendError(f()) itself
AddInline ==
    /\ ~panicked
    /\ cpc = "add"
    /\ IsInline(options)
    /\ ~LoopDone(ci, cfns)
    /\ thunks' = Append(thunks, NewThunk(cfns[ci], TRUE))
    /\ cpc' = "inline"
    /\ UNCHANGED << options, err, mu, wg, cfns, ci, rets, retOrder, lockOrder, panicked >>
    /\ UNCHANGED otherVars

\* an Add that counts each worker twice
WgAddTwice(n) == n + 2

\* g.wg.Add(1)
WgAdd(n) == n + 1

\* one iteration of the loop of lines 72-79: g.wg.Add(1) and the go statement
AddGo ==
    /\ ~panicked
    /\ cpc = "add"
    /\ ~IsInline(options)
    /\ ~LoopDone(ci, cfns)
    /\ wg' = WgAdd(wg)
    /\ thunks' = Append(thunks, NewThunk(cfns[ci], FALSE))
    /\ ci' = ci + 1
    /\ UNCHANGED << options, err, mu, cpc, cfns, rets, retOrder, lockOrder, panicked >>
    /\ UNCHANGED otherVars

\* the loop is over: Add returns
AddReturn ==
    /\ ~panicked
    /\ cpc = "add"
    /\ LoopDone(ci, cfns)
    /\ cpc' = "idle"
    /\ cfns' = << >>
    /\ ci' = 1
    /\ UNCHANGED << options, err, mu, wg, thunks, rets, retOrder, lockOrder, panicked >>
    /\ UNCHANGED otherVars

\* ------------------------------------------- a thunk and its appendError
SetPc(t, pc) == [thunks EXCEPT ![t].pc = pc]

\* an ignore test that compares err itself and does not look into its chain
IgnoredExact(e, o) ==
    \E i \in 1..Len(o.IgnoredErrors) : e = o.IgnoredErrors[i]

\* lines 105-109: err has one of the ignored errors in its chain
Ignored(e, o) ==
    \E i \in 1..Len(o.IgnoredErrors) : Is(e, o.IgnoredErrors[i])

\* an appendError that drops nothing
DroppedNever(e, o) == FALSE

\* appendError, lines 101-109: nil and ignored errors are dropped before
\* the lock is asked for
Dropped(e, o) == e = Nil \/ Ignored(e, o)

\* f() runs to its end and appendError looks at its error (lines 101-109),
\* which reads nothing another goroutine writes; calling a nil func panics
Return(t) ==
    /\ ~panicked
    /\ t \in T
    /\ thunks[t].pc = "running"
    /\ IF thunks[t].fn = NilFn
       THEN /\ panicked' = TRUE
            /\ thunks' = SetPc(t, "panic")
            /\ UNCHANGED retOrder
       ELSE /\ thunks' = [thunks EXCEPT
                  ![t].res = thunks[t].fn.ret,
                  ![t].pc = IF Dropped(thunks[t].fn.ret, options)
                            THEN "appended" ELSE "lock"]
            /\ retOrder' = Append(retOrder, t)
            /\ UNCHANGED panicked
    /\ UNCHANGED << options, err, mu, wg, cpc, cfns, ci, rets, lockOrder >>
    /\ UNCHANGED otherVars

\* an Unlock that leaves the lock held
MuKeep(m) == m

\* g.mu.Unlock()
MuUnlock(m) == Free

\* a lock that is granted to whoever asks
MuGranted(m) == TRUE

\* g.mu.Lock() is granted
MuCanLock(m) == ~m.held

\* appendError, line 111
Lock(t) ==
    /\ ~panicked
    /\ t \in T
    /\ thunks[t].pc = "lock"
    /\ MuCanLock(mu)
    /\ mu' = HeldBy(Ctx(t))
    /\ thunks' = SetPc(t, "locked")
    /\ lockOrder' = Append(lockOrder, t)
    /\ UNCHANGED << options, err, wg, cpc, cfns, ci, rets, retOrder, panicked >>
    /\ UNCHANGED otherVars

\* a FirstOnly test that never discards
DiscardNever(cur, o) == FALSE

\* line 114: an error is recorded and only the first is wanted
Discard(cur, o) == cur # Nil /\ o.FirstOnly

\* the last error wins
AccumulatedLast(cur, e, o) == IF o.FirstOnly THEN e ELSE AppendErr(cur, e)

\* lines 114-118: the new value of g.err
Accumulated(cur, e, o) == IF Discard(cur, o) THEN cur ELSE AppendErr(cur, e)

\* appendError, lines 112-118: the body under the lock and the deferred
\* g.mu.Unlock()
Accumulate(t) ==
    /\ ~panicked
    /\ t \in T
    /\ thunks[t].pc = "locked"
    /\ err' = Accumulated(err, thunks[t].res, options)
    /\ mu' = MuUnlock(mu)
    /\ thunks' = SetPc(t, "appended")
    /\ UNCHANGED << options, wg, cpc, cfns, ci, rets, retOrder, lockOrder, panicked >>
    /\ UNCHANGED otherVars

\* a Done that leaves the counter alone
WgDoneNoop(n) == n

\* g.wg.Done()
WgDone(n) == n - 1

\* the worker's deferred g.wg.Done() of line 76
Done(t) ==
    /\ ~panicked
    /\ t \in T
    /\ thunks[t].pc = "appended"
    /\ ~thunks[t].inline
    /\ wg' = WgDone(wg)
    /\ thunks' = SetPc(t, "finished")
    /\ UNCHANGED << options, err, mu, cpc, cfns, ci, rets, retOrder, lockOrder, panicked >>
    /\ UNCHANGED otherVars

\* the inline loop goes on to its next function (line 66)
InlineNext(t) ==
    /\ ~panicked
    /\ t \in T
    /\ thunks[t].pc = "appended"
    /\ thunks[t].inline
    /\ cpc = "inline"
    /\ thunks' = SetPc(t, "finished")
    /\ cpc' = "add"
    /\ ci' = ci + 1
    /\ UNCHANGED << options, err, mu, wg, cfns, rets, retOrder, lockOrder, panicked >>
    /\ UNCHANGED otherVars

\* ------------------------------------------------------ the caller: Wait
\* g.Wait() is called
WaitCall ==
    /\ ~panicked
    /\ cpc = "idle"
    /\ Len(rets) < MaxWaits
    /\ cpc' = "waitWg"
    /\ UNCHANGED << options, err, mu, wg, thunks, cfns, ci, rets, retOrder, lockOrder, panicked >>
    /\ UNCHANGED otherVars

\* g.wg.Wait() that returns at once
WgWaitAlways(n) == TRUE

\* g.wg.Wait() lets the caller through
WgWaitReady(n) == n = 0

\* line 92
WaitWg ==
    /\ ~panicked
    /\ cpc = "waitWg"
    /\ WgWaitReady(wg)
    /\ cpc' = "waitLock"
    /\ UNCHANGED << options, err, mu, wg, thunks, cfns, ci, rets, retOrder, lockOrder, panicked >>
    /\ UNCHANGED otherVars

\* line 94
WaitLock ==
    /\ ~panicked
    /\ cpc = "waitLock"
    /\ MuCanLock(mu)
    /\ mu' = HeldBy(0)
    /\ cpc' = "waitRead"
    /\ UNCHANGED << options, err, wg, thunks, cfns, ci, rets, retOrder, lockOrder, panicked >>
    /\ UNCHANGED otherVars

\* a Wait that hands the error out and starts over from nil
WaitReturnReset ==
    /\ ~panicked
    /\ cpc = "waitRead"
    /\ rets' = Append(rets, [err |-> err, n |-> Len(thunks)])
    /\ err' = Nil
    /\ mu' = MuUnlock(mu)
    /\ cpc' = "idle"
    /\ UNCHANGED << options, wg, thunks, cfns, ci, retOrder, lockOrder, panicked >>
    /\ UNCHANGED otherVars

\* lines 95-97: g.err is read, the lock released, and Wait returns
WaitReturn ==
    /\ ~panicked
    /\ cpc = "waitRead"
    /\ rets' = Append(rets, [err |-> err, n |-> Len(thunks)])
    /\ mu' = MuUnlock(mu)
    /\ cpc' = "idle"
    /\ UNCHANGED << options, err, wg, thunks, cfns, ci, retOrder, lockOrder, panicked >>
    /\ UNCHANGED otherVars

\* ------------------------------------------------------------ specification
Next ==
    \/ AddCall
    \/ AddInline
    \/ AddGo
    \/ AddReturn
    \/ \E t \in T : Return(t)
    \/ \E t \in T : Lock(t)
    \/ \E t \in T : Accumulate(t)
    \/ \E t \in T : Done(t)
    \/ \E t \in T : InlineNext(t)
    \/ WaitCall
    \/ WaitWg
    \/ WaitLock
    \/ WaitReturn

Spec == Init /\ [][Next]_vars

\* Every goroutine that can take a step is scheduled in the end, a thunk that
\* was called returns, and a started Add or Wait goes on; whether the caller
\* calls Add or Wait again is up to the caller.
Fairness ==
    /\ \A t \in 1..MaxThunks :
          /\ WF_vars(Return(t))
          /\ WF_vars(Lock(t))
          /\ WF_vars(Accumulate(t))
          /\ WF_vars(Done(t))
          /\ WF_vars(InlineNext(t))
    /\ WF_vars(AddInline)
    /\ WF_vars(AddGo)
    /\ WF_vars(AddReturn)
    /\ WF_vars(WaitWg)
    /\ WF_vars(WaitLock)
    /\ WF_vars(WaitReturn)

FairSpec == Spec /\ Fairness

\* ------------------------------------------------- the options specification
\* The caller builds Options values: literals of the exported struct and the
\* results of With, whose options are optionFuncs and Options values built
\* before.  No Group runs.
GroupIdle ==
    /\ options = ZeroOptions
    /\ err = Nil
    /\ mu = Free
    /\ wg = 0
    /\ thunks = << >>
    /\ cpc = "idle"
    /\ cfns = << >>
    /\ ci = 1
    /\ rets = << >>
    /\ retOrder = << >>
    /\ lockOrder = << >>
    /\ panicked = FALSE

\* the fields of the Options value o, its IgnoredErrors read through heap h
OptView(h, o) ==
    [FirstOnly     |-> o.FirstOnly,
     IgnoredErrors |-> SliceView(h, o.IgnoredErrors),
     Inline        |-> o.Inline]

\* the IgnoredErrors the literals are written with
LiteralErrs == {<< >>, << errA >>}

\* Options{FirstOnly: fo, Inline: il, IgnoredErrors: make([]error, n, c)}
\* with the elements errs, or with no IgnoredErrors at all (DefaultOptions()
\* when fo and il are false)
OptLiteral ==
    /\ Len(ovals) < MaxOptions
    /\ \E fo, il \in BOOLEAN, errs \in LiteralErrs, spare \in 0..MaxSpare :
          LET m == IF errs = << >> /\ spare = 0
                   THEN [heap |-> heap, slice |-> NilSlice]
                   ELSE MakeSlice(heap, errs, Len(errs) + spare)
              o == [FirstOnly |-> fo, IgnoredErrors |-> m.slice, Inline |-> il]
          IN  /\ heap' = m.heap
              /\ ovals' = Append(ovals, o)
              /\ oviews' = Append(oviews, OptView(m.heap, o))
    /\ UNCHANGED olast
    /\ UNCHANGED notOptVars

\* an Options value the caller holds from the start:
\* Options{IgnoredErrors: []error{errB}}, its elements in the first array
ExtraOptions ==
    [FirstOnly     |-> FALSE,
     IgnoredErrors |-> [arr |-> 1, len |-> 1, cap |-> 1],
     Inline        |-> FALSE]

\* the options a With call can be given
Overrides ==
    {WithFirstOnly, WithInline, WithIgnoredErrors(<< errEOF >>),
     OptionsAsOption(ExtraOptions)}
        \cup {OptionsAsOption(ovals[i]) : i \in DOMAIN ovals}

\* an option as the caller sees it: an Options value with its elements
OverrideView(h, opt) ==
    IF opt.opt = "Options" THEN OptionsAsOption(OptView(h, opt.o)) ELSE opt

RECURSIVE WithSteps(_, _, _, _)
\* what the loop of With does to *o, option by option: the fields before,
\* the option as it is when it is applied, the fields after
WithSteps(h, o, opts, spares) ==
    IF opts = << >> THEN << >>
    ELSE LET r == Apply(h, o, Head(opts), Head(spares))
         IN  << [before |-> OptView(h, o),
                 opt    |-> OverrideView(h, Head(opts)),
                 after  |-> OptView(r.heap, r.o)] >>
             \o WithSteps(r.heap, r.o, Tail(opts), Tail(spares))

\* r := ovals[b].With(opts...)
OptWith ==
    /\ Len(ovals) < MaxOptions
    /\ \E b \in DOMAIN ovals, opts \in SeqsUpTo(Overrides, MaxOverrides) :
          \E spares \in [DOMAIN opts -> 0..MaxSpare] :
              LET r == OptionsWith(heap, ovals[b], opts, spares)
              IN  /\ heap' = r.heap
                  /\ ovals' = Append(ovals, r.o)
                  /\ oviews' = Append(oviews, OptView(r.heap, r.o))
                  /\ olast' = [kind |-> "With",
                               base |-> b,
                               baseView |-> OptView(heap, ovals[b]),
                               opts |-> [i \in DOMAIN opts |->
                                            OverrideView(heap, opts[i])],
                               steps |-> WithSteps(heap, ovals[b], opts, spares),
                               res |-> Len(ovals) + 1]
    /\ UNCHANGED notOptVars

OptInit ==
    /\ GroupIdle
    /\ heap = << << errB >> >>
    /\ ovals = << >>
    /\ oviews = << >>
    /\ olast = NoCall
    /\ DoIdle
    /\ ErrIdle
    /\ LazyIdle

OptNext == OptLiteral \/ OptWith

OptSpec == OptInit /\ [][OptNext]_vars

\* ------------------------------- All, AllInline, First and FirstInline
DoNames == {"All", "AllInline", "First", "FirstInline"}

\* a do that is given no option by any of the four
DoOptsNone(name) == << >>

\* the options All, AllInline, First and FirstInline hand to do
DoOpts(name) ==
    CASE name = "All"         -> << >>
      [] name = "AllInline"   -> << WithInline >>
      [] name = "First"       -> << WithFirstOnly >>
      [] name = "FirstInline" -> << WithFirstOnly, WithInline >>

\* do, lines 154-162: a Group value of its own with DefaultOptions(), the
\* options applied to it, and the call g.Add(fns...)
DoCall ==
    /\ ~panicked
    /\ docall = NoCall
    /\ Len(dolog) < MaxCalls
    /\ \E name \in DoNames, fns \in SeqsUpTo(ErrFuncs, MaxThunks) :
          /\ docall' = [kind |-> "do", name |-> name, fns |-> fns]
          /\ options' = With(DefaultOptions, DoOpts(name))
          /\ cfns' = fns
    /\ err' = Nil
    /\ mu' = Free
    /\ wg' = 0
    /\ thunks' = << >>
    /\ rets' = << >>
    /\ retOrder' = << >>
    /\ lockOrder' = << >>
    /\ cpc' = "add"
    /\ ci' = 1
    /\ UNCHANGED << panicked, dolog >>
    /\ UNCHANGED notDoVars

\* do, line 163: g.Wait() is called when Add has returned
DoWait ==
    /\ docall # NoCall
    /\ rets = << >>
    /\ WaitCall

\* do returns what Wait returned; its Group is dropped
DoReturn ==
    /\ ~panicked
    /\ docall # NoCall
    /\ cpc = "idle"
    /\ rets # << >>
    /\ dolog' = Append(dolog, [name  |-> docall.name,
                               fns   |-> docall.fns,
                               res   |-> rets[1].err,
                               locks |-> [i \in DOMAIN lockOrder |->
                                             thunks[lockOrder[i]].res]])
    /\ docall' = NoCall
    /\ UNCHANGED groupVars
    /\ UNCHANGED notDoVars

DoInit == GroupIdle /\ OptIdle /\ DoIdle /\ ErrIdle /\ LazyIdle

DoNext ==
    \/ DoCall
    \/ AddInline
    \/ AddGo
    \/ AddReturn
    \/ \E t \in T : Return(t)
    \/ \E t \in T : Lock(t)
    \/ \E t \in T : Accumulate(t)
    \/ \E t \in T : Done(t)
    \/ \E t \in T : InlineNext(t)
    \/ DoWait
    \/ WaitWg
    \/ WaitLock
    \/ WaitReturn
    \/ DoReturn

DoSpec == DoInit /\ [][DoNext]_vars

\* ------------------------------------------ the combinators of errors.go
\* The caller builds errors with New, Wrap, Wrapf and Join from texts and
\* from the errors built before.
Texts == {"world", "b"}
Msgs == {"", "hello"}
\* the formats and args of Wrapf: "", "error%d" with 2, "hello"
Formats ==
    {[msg |-> << >>, args |-> << >>],
     [msg |-> << "error", "%d" >>, args |-> << 2 >>],
     [msg |-> << "hello" >>, args |-> << >>]}

\* the call returns res: it is in the pool from now on, and the next
\* allocation gets the next identity
Built(res, call) ==
    LET isNew == res \notin pool \cup {Nil}
    IN  /\ pool' = IF res = Nil THEN pool ELSE pool \cup {res}
        /\ nextId' = IF isNew THEN nextId + 1 ELSE nextId
        /\ elast' = [call EXCEPT !.res = res, !.isNew = isNew]

\* the fields of a call record
Call(op, base, msg, args, errs) ==
    [op |-> op, base |-> base, msg |-> msg, args |-> args, errs |-> errs,
     res |-> Nil, isNew |-> FALSE]

\* err := errors.New(text)
ENew ==
    /\ Cardinality(pool) < MaxErrors
    /\ \E text \in Texts :
          Built(New(text, nextId), Call("New", Nil, text, << >>, << >>))
    /\ UNCHANGED notErrVars

\* err := errors.Wrap(base, msg)
EWrap ==
    /\ Cardinality(pool) < MaxErrors
    /\ \E base \in pool \cup {Nil}, msg \in Msgs :
          Built(Wrap(base, msg, nextId), Call("Wrap", base, msg, << >>, << >>))
    /\ UNCHANGED notErrVars

\* err := errors.Wrapf(base, msg, args...)
EWrapf ==
    /\ Cardinality(pool) < MaxErrors
    /\ \E base \in pool \cup {Nil}, f \in Formats :
          Built(Wrapf(base, f.msg, f.args, nextId),
                Call("Wrapf", base, f.msg, f.args, << >>))
    /\ UNCHANGED notErrVars

\* err := errors.Join(errs...)
EJoin ==
    /\ Cardinality(pool) < MaxErrors
    /\ \E errs \in SeqsUpTo(pool \cup {Nil}, MaxJoin) :
          Built(Join(errs, nextId), Call("Join", Nil, "", << >>, errs))
    /\ UNCHANGED notErrVars

ErrInit == GroupIdle /\ OptIdle /\ DoIdle /\ ErrIdle /\ LazyIdle

ErrNext == ENew \/ EWrap \/ EWrapf \/ EJoin

ErrSpec == ErrInit /\ [][ErrNext]_vars

\* -------------------------------------------- nesting Join, Wrap and Lazy
\* The caller builds roots and nests Wrap, Join and Lazy over the errors
\* built before.
NNew ==
    /\ Cardinality(pool) < MaxNest
    /\ Built(New("world", nextId), Call("New", Nil, "world", << >>, << >>))
    /\ UNCHANGED notErrVars

NWrap ==
    /\ Cardinality(pool) < MaxNest
    /\ \E base \in pool :
          Built(Wrap(base, "hello", nextId), Call("Wrap", base, "hello", << >>, << >>))
    /\ UNCHANGED notErrVars

NJoin ==
    /\ Cardinality(pool) < MaxNest
    /\ \E errs \in SeqsUpTo(pool, MaxNestJoin) :
          Built(Join(errs, nextId), Call("Join", Nil, "", << >>, errs))
    /\ UNCHANGED notErrVars

\* err := errors.Lazy(func() error { return e })
NLazy ==
    /\ Cardinality(pool) < MaxNest
    /\ \E e \in pool \cup {Nil} :
          Built(Lazy(Fn(e), nextId), Call("Lazy", e, "", << >>, << >>))
    /\ UNCHANGED notErrVars

NestNext == NNew \/ NWrap \/ NJoin \/ NLazy

NestSpec == ErrInit /\ [][NestNext]_vars

\* The caller wraps errors with either version of Wrapf, with formats whose
\* verbs and args match and formats where they do not.
WFormats ==
    Formats \cup
    {[msg |-> << >>, args |-> << 2 >>],
     [msg |-> << "hello" >>, args |-> << 2 >>],
     [msg |-> << "hello ", "%s" >>, args |-> << >>]}

\* err := errors.Wrapf(base, msg, args...), first version
EWrapfS ==
    /\ Cardinality(pool) < MaxWrapfErrors
    /\ \E base \in pool \cup {Nil}, f \in WFormats :
          Built(Wrapf(base, f.msg, f.args, nextId),
                Call("Wrapf", base, f.msg, f.args, << >>))
    /\ UNCHANGED notErrVars

\* err := errors.Wrapf(base, msg, args...), second version
EWrapfW ==
    /\ Cardinality(pool) < MaxWrapfErrors
    /\ \E base \in pool \cup {Nil}, f \in WFormats :
          Built(WrapfW(base, f.msg, f.args, nextId),
                Call("WrapfW", base, f.msg, f.args, << >>))
    /\ UNCHANGED notErrVars

\* errors.New with room left for wrappers
ENewW ==
    /\ Cardinality(pool) < MaxWrapfErrors
    /\ ENew

WrapfNext == ENewW \/ EWrapfS \/ EWrapfW

WrapfSpec == ErrInit /\ [][WrapfNext]_vars

\* ------------------------------------------------- Append and Combine
\* The caller builds roots and combines the errors built before, with and
\* without a message.
CNew ==
    /\ Cardinality(pool) < MaxCombErrors
    /\ ENew

\* err := errors.Append(left, right)
CAppend ==
    /\ Cardinality(pool) < MaxCombErrors
    /\ \E left \in pool \cup {Nil}, right \in pool \cup {Nil} :
          Built(AppendErr(left, right),
                Call("Append", Nil, "", << >>, << left, right >>))
    /\ UNCHANGED notErrVars

\* err := errors.Combine(errs...)
CCombine ==
    /\ Cardinality(pool) < MaxCombErrors
    /\ \E errs \in SeqsUpTo(pool \cup {Nil}, MaxCombine) :
          Built(Combine(errs), Call("Combine", Nil, "", << >>, errs))
    /\ UNCHANGED notErrVars

\* err := errors.WrapAppend(left, right, msg)
CWrapAppend ==
    /\ Cardinality(pool) < MaxCombErrors
    /\ \E left \in pool \cup {Nil}, right \in pool \cup {Nil}, msg \in Msgs :
          Built(WrapAppend(left, right, msg, nextId),
                Call("WrapAppend", Nil, msg, << >>, << left, right >>))
    /\ UNCHANGED notErrVars

\* err := errors.WrapfAppend(left, right, msg, args...)
CWrapfAppend ==
    /\ Cardinality(pool) < MaxCombErrors
    /\ \E left \in pool \cup {Nil}, right \in pool \cup {Nil}, f \in WFormats :
          Built(WrapfAppend(left, right, f.msg, f.args, nextId),
                Call("WrapfAppend", Nil, f.msg, f.args, << left, right >>))
    /\ UNCHANGED notErrVars

\* err := errors.WrapCombine(msg, errs...)
CWrapCombine ==
    /\ Cardinality(pool) < MaxCombErrors
    /\ \E errs \in SeqsUpTo(pool \cup {Nil}, MaxCombine), msg \in Msgs :
          Built(WrapCombine(msg, errs, nextId),
                Call("WrapCombine", Nil, msg, << >>, errs))
    /\ UNCHANGED notErrVars

CombNext ==
    \/ CNew
    \/ CAppend
    \/ CCombine
    \/ CWrapAppend
    \/ CWrapfAppend
    \/ CWrapCombine

CombSpec == ErrInit /\ [][CombNext]_vars

\* --------------------------------------------- the helpers that take thunks
\* The caller builds errors with New and hands thunks that return them, or
\* nil, to JoinFuncs, AppendFunc and AppendFuncs.
\* the thunks a call can be given: nil, and func() error { return e }
PoolFuncs == {NilFn} \cup {Fn(e) : e \in pool \cup {Nil}}

\* the fields of a call that takes thunks; calls are the thunks called
FuncCall(op, base, fns) ==
    [op |-> op, base |-> base, fns |-> fns, calls |-> ThunksCalled(fns),
     res |-> Nil, isNew |-> FALSE]

\* err := errors.JoinFuncs(fns...)
EJoinFuncs ==
    /\ Cardinality(pool) < MaxFuncErrors
    /\ \E fns \in SeqsUpTo(PoolFuncs, MaxFuncs) :
          Built(JoinFuncs(fns, nextId), FuncCall("JoinFuncs", Nil, fns))
    /\ UNCHANGED notErrVars

\* err := errors.AppendFunc(base, fn)
EAppendFunc ==
    /\ Cardinality(pool) < MaxFuncErrors
    /\ \E base \in pool \cup {Nil}, fn \in PoolFuncs :
          Built(AppendFunc(base, fn, nextId),
                FuncCall("AppendFunc", base, << fn >>))
    /\ UNCHANGED notErrVars

\* err := errors.AppendFuncs(base, fns...)
EAppendFuncs ==
    /\ Cardinality(pool) < MaxFuncErrors
    /\ \E base \in pool \cup {Nil}, fns \in SeqsUpTo(PoolFuncs, MaxFuncs) :
          Built(AppendFuncs(base, fns, nextId),
                FuncCall("AppendFuncs", base, fns))
    /\ UNCHANGED notErrVars

FuncNext == ENew \/ EJoinFuncs \/ EAppendFunc \/ EAppendFuncs

FuncSpec == ErrInit /\ [][FuncNext]_vars

\* ---------------------------------------------------------- a Lazy error
\* One error made by Lazy(fn) and the goroutines that invoke its operations.
\* Each operation goes through the guard, which lets one goroutine execute
\* fn and holds the others back until the result is stored, and then hands
\* the operation on to the stored result.
LazyOps == {"Error", "Is", "As", "Unwrap"}

\* what fn can return
LazyResults == {Nil, errA, errB}

\* a guard that lets in whoever comes before the result is stored
OnceRacy(st) == st # "done"

\* the guard lets the caller execute fn
OnceMayRun(st) == st = "new"

SetAcc(a, pc, op) == [lacc EXCEPT ![a].pc = pc, ![a].op = op]

\* accessor a invokes an operation of the error
LazyBegin(a) ==
    /\ lacc[a].pc = "idle"
    /\ Len(lacc[a].seen) < MaxOps
    /\ \E op \in LazyOps : lacc' = SetAcc(a, "guard", op)
    /\ UNCHANGED << lonce, lval, lcount >>
    /\ UNCHANGED notLazyVars

\* a is let in to execute fn
LazyEnter(a) ==
    /\ lacc[a].pc = "guard"
    /\ OnceMayRun(lonce)
    /\ lonce' = "running"
    /\ lacc' = SetAcc(a, "eval", lacc[a].op)
    /\ UNCHANGED << lval, lcount >>
    /\ UNCHANGED notLazyVars

\* a executes fn and stores what it returns
LazyEval(a) ==
    /\ lacc[a].pc = "eval"
    /\ \E r \in LazyResults : lval' = r
    /\ lcount' = lcount + 1
    /\ lonce' = "done"
    /\ lacc' = SetAcc(a, "read", lacc[a].op)
    /\ UNCHANGED notLazyVars

\* the result is stored: a passes the guard without executing fn
LazyPass(a) ==
    /\ lacc[a].pc = "guard"
    /\ lonce = "done"
    /\ lacc' = SetAcc(a, "read", lacc[a].op)
    /\ UNCHANGED << lonce, lval, lcount >>
    /\ UNCHANGED notLazyVars

\* the operation is handed on to the stored result and returns
LazyRead(a) ==
    /\ lacc[a].pc = "read"
    /\ lacc' = [lacc EXCEPT ![a].pc = "idle",
                            ![a].seen = Append(@, [op |-> lacc[a].op, val |-> lval])]
    /\ UNCHANGED << lonce, lval, lcount >>
    /\ UNCHANGED notLazyVars

LazyInit == GroupIdle /\ OptIdle /\ DoIdle /\ ErrIdle /\ LazyIdle

LazyNext ==
    \/ \E a \in Accessors : LazyBegin(a)
    \/ \E a \in Accessors : LazyEnter(a)
    \/ \E a \in Accessors : LazyEval(a)
    \/ \E a \in Accessors : LazyPass(a)
    \/ \E a \in Accessors : LazyRead(a)

LazySpec == LazyInit /\ [][LazyNext]_vars

\* ------------------------------------------------------------------ claims
Finished(t) == thunks[t].pc = "finished"

\* the thunks whose result has been through appendError
PastAppend(t) == thunks[t].pc \in {"appended", "finished"}

\* the error the function of thunk t returns
ResultOf(t) == IF thunks[t].fn = NilFn THEN Nil ELSE thunks[t].fn.ret

\* target is err, or an error met by unwrapping err step by step
RECURSIVE InChain(_, _)
InChain(e, target) ==
    \/ e = target
    \/ /\ e # Nil
       /\ Unwrap(e) # Nil
       /\ InChain(Unwrap(e), target)

\* the result of thunk t is a non-nil error with no ignored error in its chain
Counts(t) ==
    /\ thunks[t].fn # NilFn
    /\ ResultOf(t) # Nil
    /\ \A i \in DOMAIN options.IgnoredErrors :
            ~InChain(ResultOf(t), options.IgnoredErrors[i])

\* how many times e occurs in the sequence q
Occurrences(e, q) == Cardinality({i \in DOMAIN q : q[i] = e})

Last(q) == q[Len(q)]

\* C1: Wait does not return while a thunk given to an earlier Add has not
\* finished and been through appendError, and it returns g.err as it is then.
C1_WaitAfterAllThunks ==
    [][Len(rets') = Len(rets) + 1 =>
          /\ \A t \in T : Finished(t)
          /\ \A t \in T : Counts(t) => t \in {lockOrder[i] : i \in DOMAIN lockOrder}
          /\ Last(rets').err = err
          /\ Last(rets').n = Len(thunks)]_vars

\* a Wait has returned the error of a concurrently run thunk
C1_Witness ==
    /\ rets # << >>
    /\ Last(rets).err # Nil
    /\ \E t \in T : ~thunks[t].inline /\ Counts(t)

\* C2: without FirstOnly, what Wait returns holds each non-nil, non-ignored
\* result of the thunks given to Add so far once per thunk that returned it,
\* and nothing else, whether the thunks ran inline or concurrently.
C2_NothingLostOrDuplicated ==
    ~options.FirstOnly =>
        \A k \in DOMAIN rets :
            LET got == Flatten(rets[k].err)
            IN  /\ \A i \in DOMAIN got : got[i] \in Results \ {Nil}
                /\ \A e \in Results \ {Nil} :
                      Occurrences(e, got) =
                          Cardinality({t \in 1..rets[k].n :
                                          Counts(t) /\ ResultOf(t) = e})

\* Wait returned two errors of two workers that ran concurrently
C2_Witness ==
    /\ ~options.FirstOnly
    /\ ~options.Inline
    /\ \E k \in DOMAIN rets :
          /\ rets[k].n = 2
          /\ Len(Flatten(rets[k].err)) = 2
    /\ lockOrder = << 2, 1 >>

\* the first thunk to take the lock has left appendError
FirstRecorded == lockOrder # << >> /\ PastAppend(lockOrder[1])

C3_FirstOnlyState ==
    options.FirstOnly =>
        IF FirstRecorded THEN err = ResultOf(lockOrder[1]) ELSE err = Nil

\* C3: with FirstOnly, g.err is nil or is the very error that was first to
\* reach the locked part of appendError, and once set it never changes.
C3_FirstOnlyVerbatim ==
    /\ [] C3_FirstOnlyState
    /\ [][options.FirstOnly /\ err # Nil => err' = err]_vars

\* a second error went through appendError after the first was recorded
C3_Witness ==
    /\ options.FirstOnly
    /\ Len(lockOrder) = 2
    /\ PastAppend(lockOrder[2])
    /\ ResultOf(lockOrder[2]) # err
    /\ err # Nil

\* the thunks among the first n that took the lock, in the order they took it
LockedAmong(n) ==
    LET Early(t) == t <= n
    IN  SelectSeq(lockOrder, Early)

IgnoredByChain(e) ==
    \E i \in DOMAIN options.IgnoredErrors : InChain(e, options.IgnoredErrors[i])

Returned(t) == thunks[t].pc \in {"lock", "locked", "appended", "finished"}

InLockOrder(t) == \E i \in DOMAIN lockOrder : lockOrder[i] = t

\* C5: an error with an ignored error in its chain never asks for the lock,
\* is no part of g.err and does not stand for the recorded error of
\* FirstOnly; an error with none is not dropped by the ignore step.
C5_IgnoredErrors ==
    /\ \A t \in T :
          (Returned(t) /\ IgnoredByChain(ResultOf(t))) =>
              (PastAppend(t) /\ ~InLockOrder(t))
    /\ \A i \in DOMAIN Flatten(err) : ~IgnoredByChain(Flatten(err)[i])
    /\ \A t \in T :
          (Returned(t) /\ ResultOf(t) # Nil /\ ~IgnoredByChain(ResultOf(t))) =>
              (thunks[t].pc = "lock" \/ InLockOrder(t))
    /\ \A t \in T : (Counts(t) /\ PastAppend(t)) => err # Nil
    /\ (options.FirstOnly /\ FirstRecorded) => Counts(lockOrder[1])

\* with FirstOnly, a worker returned an ignored error first and the error of
\* the worker that returned after it was recorded
C5_Witness ==
    /\ options.FirstOnly
    /\ ~options.Inline
    /\ retOrder = << 1, 2 >>
    /\ ResultOf(1) = wrapEOF
    /\ IgnoredByChain(ResultOf(1))
    /\ err = errA
    /\ ResultOf(2) = errA

\* C6: Add with no function or with nil functions only, then Wait, returns
\* nil and does not panic; a nil function among others is skipped.
C6_NilThunksSkipped ==
    /\ ~panicked
    /\ \A t \in T : thunks[t].fn = NilFn => thunks[t].pc # "panic"
    /\ \A k \in DOMAIN rets :
          (\A t \in 1..rets[k].n : thunks[t].fn = NilFn) => rets[k].err = Nil

\* the thunks whose error is part of g.err when nothing is discarded, in the
\* order in which Add was given them
CountedSoFar ==
    LET In(t) == Counts(t) /\ PastAppend(t)
        ts == SelectSeq([t \in 1..Len(thunks) |-> t], In)
    IN  [i \in DOMAIN ts |-> ResultOf(ts[i])]

\* how many functions of the Add call in progress have been started
StartedOfCall == IF cpc = "inline" THEN ci ELSE ci - 1

\* C7: in Inline mode the functions run one at a time in the order of the
\* arguments, each is through appendError before the next starts, and without
\* FirstOnly the errors of g.err are in the order of the calls.
C7_InlineInOrder ==
    options.Inline =>
        /\ \A t \in T : thunks[t].inline /\ (t < Len(thunks) => Finished(t))
        /\ cpc \in {"add", "inline"} =>
              /\ StartedOfCall <= Len(thunks)
              /\ \A j \in 1..StartedOfCall :
                    thunks[Len(thunks) - StartedOfCall + j].fn = cfns[j]
        /\ \A i \in DOMAIN retOrder : retOrder[i] = i
        /\ \A i, j \in DOMAIN lockOrder : i < j => lockOrder[i] < lockOrder[j]
        /\ ~options.FirstOnly => Flatten(err) = CountedSoFar

\* two inline functions returned b and then a, and g.err is (b, a)
C7_Witness ==
    /\ options.Inline
    /\ ~options.FirstOnly
    /\ Len(thunks) = 2
    /\ ResultOf(1) = errB
    /\ ResultOf(2) = errA
    /\ err = FromSlice(<< errB, errA >>)

\* C8: in Inline mode, when Add returns its functions have all run and been
\* through appendError, the WaitGroup counter is what it was, and a Wait
\* called next does not block.
C8_InlineAddBlocks ==
    /\ [][(options.Inline /\ cpc = "add" /\ cpc' = "idle") =>
              /\ Len(thunks) >= Len(cfns)
              /\ \A j \in DOMAIN cfns :
                    /\ thunks[Len(thunks) - Len(cfns) + j].fn = cfns[j]
                    /\ Finished(Len(thunks) - Len(cfns) + j)
              /\ wg' = wg
              /\ ~mu'.held]_vars
    /\ [](options.Inline => wg = 0)
    /\ []((options.Inline /\ cpc = "waitWg") => ENABLED WaitWg)
    /\ []((options.Inline /\ cpc = "waitLock") => ENABLED WaitLock)

\* Wait is called after an inline Add of two functions
C8_Witness ==
    /\ options.Inline
    /\ cpc = "waitWg"
    /\ Len(thunks) = 2
    /\ rets = << >>
    /\ err # Nil

\* C9: a Wait that was called returns in the end (unless a nil function
\* brought the process down).
C9_WaitReturns == (cpc = "waitWg") ~> (cpc = "idle" \/ panicked)

\* Wait is blocked on two running workers
C9_Witness ==
    /\ cpc = "waitWg"
    /\ wg = 2
    /\ \A t \in T : thunks[t].pc = "running" /\ thunks[t].fn # NilFn

\* C10: no goroutine holds g.mu while it runs a thunk: the lock is held only
\* between Lock and the end of appendError (or inside Wait), so a goroutine
\* that waits for the lock waits for a holder that can go on whatever the
\* running thunks do (while the process lives).
C10_NoLockWhileRunning ==
    /\ \A t \in T :
          thunks[t].pc = "running" => ~(mu.held /\ mu.by = Ctx(t))
    /\ mu.held =>
          \/ mu.by = 0 /\ cpc = "waitRead"
          \/ \E t \in T : Ctx(t) = mu.by /\ thunks[t].pc = "locked"
    /\ \A t \in T :
          (thunks[t].pc = "lock" /\ ~panicked) =>
              \/ ENABLED Lock(t)
              \/ \E h \in T : ENABLED Accumulate(h)
              \/ ENABLED WaitReturn

\* a worker is in the locked part of appendError while the thunk of another
\* worker is still running
C10_Witness ==
    /\ mu.held
    /\ \E t, h \in T :
          /\ thunks[t].pc = "running"
          /\ thunks[h].pc = "locked"
          /\ mu.by = h

\* p is what q starts with
IsPrefix(p, q) == Len(p) <= Len(q) /\ SubSeq(q, 1, Len(p)) = p

\* C11 for the values Wait returned: a later value starts with the components
\* of every earlier one
C11_WaitsGrow ==
    \A k, l \in DOMAIN rets :
        k < l => IsPrefix(Flatten(rets[k].err), Flatten(rets[l].err))

\* C11: g.err never goes back to nil, a step keeps its components in place
\* and adds at the end only, so what one Wait returned is the beginning of
\* what every later Wait returns, and an Add after a Wait adds to it.
C11_Monotonic ==
    /\ [] C11_WaitsGrow
    /\ [][/\ err # Nil => err' # Nil
          /\ IsPrefix(Flatten(err), Flatten(err'))]_vars

\* a Wait returned one error, a later Add brought a second, and the next Wait
\* returned both
C11_Witness ==
    /\ Len(rets) = 2
    /\ rets[1].n = 1
    /\ rets[1].err = errA
    /\ rets[2].n = 2
    /\ rets[2].err = FromSlice(<< errA, errB >>)

\* the caller is inside Wait
InWait(pc) == pc \in {"waitWg", "waitLock", "waitRead"}

\* C12 for the values Wait returned: two Waits with no thunk added between
\* them returned the same error
C12_SameAgain ==
    \A k, l \in DOMAIN rets : rets[k].n = rets[l].n => rets[k].err = rets[l].err

\* C12: Wait can be called again and again (up to the bound of the model);
\* with no Add between them two Waits return the same error; the steps of
\* Wait leave g.err, the WaitGroup counter and the options as they are, and
\* the lock it took is free again when it returns.
C12_WaitReadsOnly ==
    /\ [] C12_SameAgain
    /\ []((cpc = "idle" /\ Len(rets) < MaxWaits /\ ~panicked) => ENABLED WaitCall)
    /\ [][(cpc' # cpc /\ (InWait(cpc) \/ InWait(cpc'))) =>
              /\ err' = err
              /\ wg' = wg
              /\ options' = options
              /\ thunks' = thunks
              /\ (cpc' = "idle" => mu' = Free)]_vars

\* two Waits in a row returned the same two errors
C12_Witness ==
    /\ Len(rets) = 2
    /\ rets[1].n = 2
    /\ rets[2].n = 2
    /\ Len(Flatten(rets[1].err)) = 2
    /\ rets[2].err = rets[1].err

\* the Group was made by New() with no option
NewNoOptions == options = With(DefaultOptions, << >>)

\* the Group is a zero-value Group
ZeroValueGroup == options = ZeroOptions

\* C15: DefaultOptions() is FirstOnly=false, no ignored errors, Inline=false;
\* a zero-value Group and a Group of New() start in the same state, and both
\* run every function in a goroutine of its own, drop nil errors only, and
\* return from Wait all the errors of the thunks given so far.
C15_ZeroValueIsDefault ==
    /\ DefaultOptions.FirstOnly = FALSE
    /\ DefaultOptions.IgnoredErrors = << >>
    /\ DefaultOptions.Inline = FALSE
    /\ ZeroValueGroup <=> NewNoOptions
    /\ \A o \in {ZeroOptions, With(DefaultOptions, << >>)} :
          options = o =>
              /\ \A t \in T : ~thunks[t].inline
              /\ \A t \in T :
                    (Returned(t) /\ ResultOf(t) # Nil) =>
                        (thunks[t].pc = "lock" \/ InLockOrder(t))
              /\ \A k \in DOMAIN rets :
                    \A e \in Results \ {Nil} :
                        Occurrences(e, Flatten(rets[k].err)) =
                            Cardinality({t \in 1..rets[k].n : ResultOf(t) = e})

\* a Group without options ran two workers, one of which returned an error
\* that has io.EOF in its chain, and Wait returned both errors
C15_Witness ==
    /\ ZeroValueGroup
    /\ rets # << >>
    /\ Last(rets).n = 2
    /\ \E t \in T : ResultOf(t) = wrapEOF
    /\ Len(Flatten(Last(rets).err)) = 2
    /\ \A t \in T : ~thunks[t].inline

\* what option opt adds to the ignored errors
EntriesOf(opt) ==
    CASE opt.opt = "IgnoredErrors" -> opt.errs
      [] opt.opt = "Options"       -> opt.o.IgnoredErrors
      [] OTHER                     -> << >>

\* the value of the boolean field f ("FirstOnly" or "Inline") after opts:
\* the last option that writes f decides, the base when none does
LaterWins(base, opts, f) ==
    LET writes == {i \in DOMAIN opts : opts[i].opt \in {f, "Options"}}
        m == CHOOSE i \in writes : \A j \in writes : j <= i
    IN  IF writes = {} THEN base[f]
        ELSE IF opts[m].opt = "Options" THEN opts[m].o[f] ELSE TRUE

\* one option applied to the fields before gives the fields after
MergedAs(before, opt, after) ==
    /\ after.IgnoredErrors = before.IgnoredErrors \o EntriesOf(opt)
    /\ after.FirstOnly = LaterWins(before, << opt >>, "FirstOnly")
    /\ after.Inline = LaterWins(before, << opt >>, "Inline")

\* C13: the options of With are applied left to right, each to the result of
\* the one before: an Options value o used as an option sets FirstOnly and
\* Inline to o's (false too) and puts o's entries behind the entries that
\* are there, WithIgnoredErrors puts its errors behind them, none is
\* replaced, and the last option that writes a boolean decides it.
C13_MergeLeftToRight ==
    olast # NoCall =>
        LET res == OptView(heap, ovals[olast.res])
            base == olast.baseView
            opts == olast.opts
            steps == olast.steps
        IN  /\ Len(steps) = Len(opts)
            /\ \A i \in DOMAIN steps :
                  /\ steps[i].opt.opt = opts[i].opt
                  /\ steps[i].before = IF i = 1 THEN base ELSE steps[i - 1].after
                  /\ MergedAs(steps[i].before, steps[i].opt, steps[i].after)
            /\ res = IF steps = << >> THEN base ELSE steps[Len(steps)].after
            /\ res.FirstOnly = LaterWins(base, opts, "FirstOnly")
            /\ res.Inline = LaterWins(base, opts, "Inline")
            /\ Len(opts) = 1 => MergedAs(base, opts[1], res)

\* an Options value with FirstOnly false and one ignored error was applied
\* to a base with FirstOnly true and one ignored error
C13_Witness ==
    /\ olast # NoCall
    /\ Len(olast.opts) = 1
    /\ olast.opts[1].opt = "Options"
    /\ olast.baseView.FirstOnly
    /\ ~olast.opts[1].o.FirstOnly
    /\ Len(olast.baseView.IgnoredErrors) = 1
    /\ Len(olast.opts[1].o.IgnoredErrors) = 1
    /\ ~ovals[olast.res].FirstOnly
    /\ Len(OptView(heap, ovals[olast.res]).IgnoredErrors) = 2

\* C14: an Options value keeps the fields it was built with whatever With
\* calls follow: With changes neither its receiver nor an Options value that
\* an earlier With call derived from the same base.
C14_NoSharedState ==
    \A i \in DOMAIN ovals : OptView(heap, ovals[i]) = oviews[i]

\* the options of the Group each of the four is said to stand for
DoExpected(name) ==
    [FirstOnly     |-> name \in {"First", "FirstInline"},
     IgnoredErrors |-> << >>,
     Inline        |-> name \in {"AllInline", "FirstInline"}]

\* the non-nil errors the functions fns return, in the order of fns
NonNilResults(fns) ==
    LET rs == [i \in DOMAIN fns |-> IF fns[i] = NilFn THEN Nil ELSE fns[i].ret]
        NotNil(e) == e # Nil
    IN  SelectSeq(rs, NotNil)

\* p and q hold the same errors the same number of times
SameErrors(p, q) ==
    \A e \in Results : Occurrences(e, p) = Occurrences(e, q)

\* C16: a call of All, AllInline, First or FirstInline runs a Group of its
\* own that has the default options, Inline, FirstOnly, or both, gives Add
\* all its functions in one call and returns what one Wait returns: all the
\* errors of its functions (in their order when inline), or the one that was
\* recorded first; nothing of an earlier call is in the Group or the result.
C16_OneShotGroups ==
    /\ docall # NoCall =>
          /\ options = DoExpected(docall.name)
          /\ Len(thunks) <= Len(docall.fns)
          /\ \A t \in T : thunks[t].fn = docall.fns[t]
          /\ \A i \in DOMAIN Flatten(err) :
                \E t \in T : Flatten(err)[i] = ResultOf(t)
          /\ Len(rets) <= 1
          /\ rets # << >> =>
                /\ rets[1].n = Len(docall.fns)
                /\ rets[1].err = err
    /\ \A c \in DOMAIN dolog :
          LET d == dolog[c]
              nn == NonNilResults(d.fns)
          IN  CASE d.name = "All" ->
                      SameErrors(Flatten(d.res), nn) /\ Len(Flatten(d.res)) = Len(nn)
                [] d.name = "AllInline" -> Flatten(d.res) = nn
                [] d.name = "First" ->
                      /\ d.res = IF nn = << >> THEN Nil ELSE d.locks[1]
                      /\ nn # << >> => Occurrences(d.res, nn) > 0
                [] d.name = "FirstInline" ->
                      d.res = IF nn = << >> THEN Nil ELSE nn[1]

\* All returned errA and errB, and the AllInline called after it returned
\* errB alone
C16_Witness ==
    /\ Len(dolog) = 2
    /\ dolog[1].name = "All"
    /\ SameErrors(Flatten(dolog[1].res), << errA, errB >>)
    /\ dolog[2].name = "AllInline"
    /\ dolog[2].fns = << Fn(Nil), Fn(errB) >>
    /\ dolog[2].res = errB

\* C17: Wrap(base, msg) is nil when base is nil, is base itself when msg is
\* empty, and is else a newly allocated error whose message is msg, ": " and
\* the message of base, and whose Unwrap is base.
C17_Wrap ==
    (elast # NoCall /\ elast.op = "Wrap") =>
        LET base == elast.base
            msg == elast.msg
            res == elast.res
        IN  /\ base = Nil => res = Nil
            /\ (base # Nil /\ msg = "") => (res = base /\ ~elast.isNew)
            /\ (base # Nil /\ msg # "") =>
                  /\ elast.isNew
                  /\ res # Nil
                  /\ res # base
                  /\ Message(res) = msg \o ": " \o Message(base)
                  /\ Unwrap(res) = base

\* Wrap(err, "hello") of an error that reads "hello: world"
C17_Witness ==
    /\ elast # NoCall
    /\ elast.op = "Wrap"
    /\ elast.base # Nil
    /\ Message(elast.base) = "hello: world"
    /\ elast.msg = "hello"
    /\ Message(elast.res) = "hello: hello: world"

RECURSIVE ChainOf(_)
\* e and what Unwrap gives step by step, down to the last error
ChainOf(e) == IF e = Nil THEN << >> ELSE << e >> \o ChainOf(Unwrap(e))

RECURSIVE UnwrapTimes(_, _)
UnwrapTimes(e, n) ==
    IF n = 0 \/ e = Nil THEN e ELSE UnwrapTimes(Unwrap(e), n - 1)

\* x is one of the errors of the chain of e
OnChain(e, x) == \E i \in DOMAIN ChainOf(e) : ChainOf(e)[i] = x

\* e was built by Wrap and Wrapf calls over an error of New
OverRoot(e) == ChainOf(e)[Len(ChainOf(e))].kind = "root"

C19_Join ==
    (elast # NoCall /\ elast.op = "Join") =>
        LET errs == elast.errs
            IsThere(e) == e # Nil
            left == SelectSeq(errs, IsThere)
            res == elast.res
        IN  /\ Len(left) = 0 => res = Nil
            /\ Len(left) = 1 => (res = left[1] /\ ~elast.isNew)
            /\ Len(left) >= 2 =>
                  /\ elast.isNew
                  /\ res.kind = "multi"
                  /\ res.errs = left
                  /\ \A i \in DOMAIN left : Is(res, left[i])
                  /\ \A x \in pool \ {res} :
                        Is(res, x) <=> \E i \in DOMAIN left : Is(left[i], x)

\* Join(errA, nil, errB) with errA a wrapper
C19_Witness ==
    /\ elast # NoCall
    /\ elast.op = "Join"
    /\ Len(elast.errs) = 3
    /\ elast.errs[2] = Nil
    /\ elast.errs[1] # Nil
    /\ elast.errs[1].kind = "wrap"
    /\ elast.errs[3] # Nil
    /\ elast.errs[3] # elast.errs[1]
    /\ elast.res.kind = "multi"
    /\ Len(elast.res.errs) = 2

\* no accessor has invoked an operation
NoneInvoked == \A a \in Accessors : lacc[a].pc = "idle" /\ lacc[a].seen = << >>

\* C20: fn is executed at most once whatever operations are invoked and
\* however the accessors interleave, not at all while no operation has been
\* invoked, and every operation is answered from the one stored result.
C20_LazyOnce ==
    /\ [](lcount <= 1)
    /\ [](NoneInvoked => (lcount = 0 /\ lonce = "new"))
    /\ [](lcount = 1 <=> lonce = "done")
    /\ [](\A a, b \in Accessors :
            \A i \in DOMAIN lacc[a].seen, j \in DOMAIN lacc[b].seen :
                /\ lacc[a].seen[i].val = lacc[b].seen[j].val
                /\ lacc[a].seen[i].val = lval)
    /\ [][lonce = "done" => (lval' = lval /\ lcount' = lcount)]_vars

\* fn was executed once and returned errA, and two accessors have each had
\* two operations answered
C20_Witness ==
    /\ lcount = 1
    /\ lval = errA
    /\ \A a \in Accessors : Len(lacc[a].seen) = 2
    /\ lacc[1].seen[1].op = "Is"
    /\ lacc[2].seen[1].op = "Error"
    /\ lacc[2].seen[2].op = "Unwrap"

\* the thunks given to a worker whose deferred Done has not run
Outstanding == {t \in T : ~thunks[t].inline /\ ~Finished(t)}

InLocked ==
    {Ctx(t) : t \in {u \in T : thunks[u].pc = "locked"}}
        \cup (IF cpc = "waitRead" THEN {0} ELSE {})

\* the thunks that are between Lock and Unlock of appendError
LockedThunks == {t \in T : thunks[t].pc = "locked"}

\* C26: g.err is written only by a goroutine that holds g.mu (the test of
\* FirstOnly and the append of appendError) and read only by one that holds
\* it (there and in Wait); at most one goroutine holds g.mu, and while a
\* worker is between its Lock and its Unlock no one else changes g.err.
C26_ErrUnderLock ==
    /\ [](Cardinality(LockedThunks) + (IF cpc = "waitRead" THEN 1 ELSE 0) <= 1)
    /\ [](mu.held <=> InLocked # {})
    /\ [](mu.held => InLocked = {mu.by})
    /\ [][err' # err =>
              /\ mu.held
              /\ \E t \in LockedThunks :
                    /\ mu.by = Ctx(t)
                    /\ thunks'[t].pc = "appended"
                    /\ err' = Accumulated(err, thunks[t].res, options)]_vars
    /\ [][Len(rets') > Len(rets) =>
              /\ mu.held
              /\ mu.by = 0
              /\ cpc = "waitRead"]_vars
    /\ [][(\E t \in LockedThunks : thunks'[t].pc = "locked") => err' = err]_vars

\* with FirstOnly and the error of one worker recorded, another worker
\* holds the lock and is about to test whether an error is recorded
C26_Witness ==
    /\ options.FirstOnly
    /\ ~options.Inline
    /\ err # Nil
    /\ \E t, u \in T :
          /\ PastAppend(t)
          /\ thunks[u].pc = "locked"
          /\ mu = HeldBy(u)

\* the results of the thunks ts, in the order of ts
ResultsOf(ts) == [i \in DOMAIN ts |-> ResultOf(ts[i])]

\* the thunks that took the lock and have left appendError, in lock order
AppendedInLockOrder == SelectSeq(lockOrder, PastAppend)

\* C27: with workers and without FirstOnly, the errors of g.err, and of what
\* Wait returns, are the errors that went through the locked part of
\* appendError, in the order in which the workers took the lock, whatever
\* the order of the functions in the Add calls.
C27_LockOrderIsComponentOrder ==
    (~options.FirstOnly /\ ~options.Inline) =>
        /\ Flatten(err) = ResultsOf(AppendedInLockOrder)
        /\ \A i \in DOMAIN lockOrder : Counts(lockOrder[i])
        /\ \A k \in DOMAIN rets :
              Flatten(rets[k].err) = ResultsOf(LockedAmong(rets[k].n))

\* Add was given a function that returns errA and then one that returns
\* errB, the second worker took the lock first, and Wait returned (errB, errA)
C27_Witness ==
    /\ ~options.FirstOnly
    /\ ~options.Inline
    /\ Len(thunks) = 2
    /\ ResultOf(1) = errA
    /\ ResultOf(2) = errB
    /\ lockOrder = << 2, 1 >>
    /\ rets # << >>
    /\ Last(rets).err = FromSlice(<< errB, errA >>)

\* the first result in call order, among the first n thunks, that counts
FirstCounting(n) ==
    LET cs == {t \in 1..n : Counts(t)}
    IN  IF cs = {} THEN Nil
        ELSE ResultOf(CHOOSE t \in cs : \A u \in cs : t <= u)

\* C28: with or without FirstOnly, inline or not, when Add returns each of
\* its functions has been started once, in order, also those that come
\* after an error was recorded; no function is called twice; when Wait
\* returns all have been called; and with FirstOnly and Inline Wait returns
\* the first counting result in call order, the later results being dropped
\* (while the process lives: a nil function ends it).
C28_NoShortCircuit ==
    /\ [][(cpc = "add" /\ cpc' = "idle") =>
              /\ Len(thunks) >= Len(cfns)
              /\ \A j \in DOMAIN cfns :
                    thunks[Len(thunks) - Len(cfns) + j].fn = cfns[j]]_vars
    /\ [][\A t \in T : thunks'[t].fn = thunks[t].fn]_vars
    /\ [](\A i, j \in DOMAIN retOrder : retOrder[i] = retOrder[j] => i = j)
    /\ [](\A t \in T : Returned(t) <=> InLockOrder(t) \/ thunks[t].pc = "lock"
                                          \/ (PastAppend(t) /\ ~Counts(t)))
    /\ [][Len(rets') > Len(rets) =>
              \A t \in T : \E i \in DOMAIN retOrder : retOrder[i] = t]_vars
    /\ []((options.FirstOnly /\ options.Inline) =>
              \A k \in DOMAIN rets : rets[k].err = FirstCounting(rets[k].n))

\* FirstInline-like: the first function returned errA, the second was still
\* called and returned errB, and Wait returned errA
C28_Witness ==
    /\ options.FirstOnly
    /\ options.Inline
    /\ Len(thunks) = 2
    /\ retOrder = << 1, 2 >>
    /\ thunks[1].res = errA
    /\ thunks[2].res = errB
    /\ lockOrder = << 1, 2 >>
    /\ rets # << >>
    /\ Last(rets).err = errA

\* C29: appendError of a nil error or of an error with an ignored error in
\* its chain changes nothing of the Group and does not ask for the lock;
\* with FirstOnly and an error recorded the locked part leaves g.err as it
\* is; and no step of Add, Wait or appendError changes the options.
C29_AppendErrorFrame ==
    /\ [][options' = options]_vars
    /\ [](\A t \in T :
            (Returned(t) /\ (ResultOf(t) = Nil \/ IgnoredByChain(ResultOf(t)))) =>
                (PastAppend(t) /\ ~InLockOrder(t)))
    /\ [][\A t \in T :
              (thunks[t].pc = "running" /\ thunks'[t].pc = "appended") =>
                  /\ thunks[t].fn # NilFn
                  /\ ResultOf(t) = Nil \/ IgnoredByChain(ResultOf(t))
                  /\ err' = err
                  /\ mu' = mu
                  /\ wg' = wg
                  /\ lockOrder' = lockOrder]_vars
    /\ [][\A t \in T :
              (thunks[t].pc = "locked" /\ thunks'[t].pc = "appended"
                    /\ options.FirstOnly /\ err # Nil) =>
                  err' = err]_vars

\* a worker returned an ignored error and is through appendError while
\* another worker holds the lock
C29_Witness ==
    \E t, u \in T :
        /\ ResultOf(t) = wrapEOF
        /\ IgnoredByChain(ResultOf(t))
        /\ thunks[t].pc = "appended"
        /\ thunks[u].pc = "locked"
        /\ mu = HeldBy(u)
        /\ retOrder = << u, t >>

\* the last call was op
LastWas(op) == elast # NoCall /\ elast.op = op

\* each thunk of fns that is not nil was called once, in the order of fns,
\* and no nil thunk was called
CalledOnceInOrder(fns, calls) ==
    /\ \A i, j \in DOMAIN calls : i < j => calls[i] < calls[j]
    /\ {calls[i] : i \in DOMAIN calls} = {i \in DOMAIN fns : fns[i] # NilFn}

\* the errors that are not nil among what the calls returned, in call order
Returns(fns, calls) ==
    LET rs == [i \in DOMAIN calls |-> fns[calls[i]].ret]
        IsThere(e) == e # Nil
    IN  SelectSeq(rs, IsThere)

\* res is what the 0/1/more rule makes of the errors left: nil, the error
\* itself, or an aggregate of them in order that matches, of the errors
\* built so far, what one of them matches
FoldedAs(res, left) ==
    /\ Len(left) = 0 => res = Nil
    /\ Len(left) = 1 => res = left[1]
    /\ Len(left) >= 2 =>
          /\ res # Nil
          /\ res.kind = "multi"
          /\ res.errs = left
          /\ \A i \in DOMAIN left : Is(res, left[i])
          /\ \A x \in pool \ {res} :
                Is(res, x) <=> \E i \in DOMAIN left : Is(left[i], x)

\* C21: JoinFuncs calls each thunk that is not nil once, in order, calls no
\* nil thunk, and returns nil when no call returned an error, the error
\* itself when one did, and else an aggregate of the returned errors in
\* call order that matches them and nothing else.
C21_JoinFuncs ==
    LastWas("JoinFuncs") =>
        /\ CalledOnceInOrder(elast.fns, elast.calls)
        /\ FoldedAs(elast.res, Returns(elast.fns, elast.calls))

\* JoinFuncs of a thunk that returns an error, a nil thunk and a thunk that
\* returns another error
C21_Witness ==
    /\ LastWas("JoinFuncs")
    /\ Len(elast.fns) = 3
    /\ elast.fns[1] # NilFn
    /\ elast.fns[2] = NilFn
    /\ elast.fns[3] # NilFn
    /\ elast.calls = << 1, 3 >>
    /\ elast.res # Nil
    /\ elast.res.kind = "multi"
    /\ elast.res.errs = << elast.fns[1].ret, elast.fns[3].ret >>
    /\ elast.fns[1].ret # elast.fns[3].ret

\* C22: AppendFunc(err, fn) returns err itself and calls nothing when fn is
\* nil; else it calls fn once and returns its result when err is nil, err
\* itself when the result is nil, and else a new aggregate of err and the
\* result, in that order, that matches both.
C22_AppendFunc ==
    LastWas("AppendFunc") =>
        LET base == elast.base
            fn == elast.fns[1]
            res == elast.res
        IN  /\ fn = NilFn => (res = base /\ elast.calls = << >> /\ ~elast.isNew)
            /\ fn # NilFn =>
                  /\ elast.calls = << 1 >>
                  /\ base = Nil => res = fn.ret
                  /\ (base # Nil /\ fn.ret = Nil) => (res = base /\ ~elast.isNew)
                  /\ (base # Nil /\ fn.ret # Nil) =>
                        /\ elast.isNew
                        /\ res.kind = "multi"
                        /\ res.errs = << base, fn.ret >>
                        /\ Is(res, base)
                        /\ Is(res, fn.ret)

\* AppendFunc of an error and a thunk that returns another error
C22_Witness ==
    /\ LastWas("AppendFunc")
    /\ elast.base # Nil
    /\ elast.isNew
    /\ elast.fns[1] # NilFn
    /\ elast.fns[1].ret # Nil
    /\ ~Is(elast.base, elast.fns[1].ret)
    /\ elast.res.kind = "multi"
    /\ elast.res.errs = << elast.base, elast.fns[1].ret >>

RECURSIVE FoldAppendFunc(_, _, _)
\* AppendFunc applied to err and each thunk of fns in turn
FoldAppendFunc(e, fns, id) ==
    IF fns = << >> THEN e
    ELSE FoldAppendFunc(AppendFunc(e, Head(fns), id), Tail(fns), id + 1)

RECURSIVE Leaves(_)
\* the errors of e that are no aggregates, from left to right
Leaves(e) ==
    CASE e = Nil                                 -> << >>
      [] e.kind = "multi" /\ Len(e.errs) = 0     -> << >>
      [] e.kind = "multi" ->
            Leaves(Head(e.errs)) \o Leaves([e EXCEPT !.errs = Tail(e.errs)])
      [] OTHER                                   -> << e >>

\* C23: AppendFuncs(err, fns...) calls each thunk that is not nil once, in
\* order, and returns what AppendFunc applied thunk after thunk returns, up
\* to the grouping of the aggregate: nil when err is nil and no call
\* returned an error, the one error itself when there is one, and else err
\* (if not nil) followed by the returned errors in call order; it matches
\* what the fold matches.
C23_AppendFuncs ==
    LastWas("AppendFuncs") =>
        LET base == elast.base
            fns == elast.fns
            res == elast.res
            fold == FoldAppendFunc(base, fns, nextId)
            IsThere(e) == e # Nil
            left == SelectSeq(<< base >>, IsThere) \o Returns(fns, elast.calls)
        IN  /\ CalledOnceInOrder(fns, elast.calls)
            /\ FoldedAs(res, left)
            /\ res = Nil <=> fold = Nil
            /\ Len(left) <= 2 => (res = fold \/ (elast.isNew /\ res.errs = fold.errs))
            /\ Leaves(res) = Leaves(fold)
            /\ \A x \in pool \ {res} :
                  (fold # Nil /\ res # Nil) => (Is(res, x) <=> Is(fold, x))

\* AppendFuncs of an error and three thunks of which the first and the last
\* return errors
C23_Witness ==
    /\ LastWas("AppendFuncs")
    /\ elast.base # Nil
    /\ Len(elast.fns) = 3
    /\ elast.calls = << 1, 2, 3 >>
    /\ elast.fns[2].ret = Nil
    /\ elast.res.kind = "multi"
    /\ elast.res.errs = << elast.base, elast.fns[1].ret, elast.fns[3].ret >>
    /\ elast.fns[1].ret # elast.fns[3].ret
    /\ elast.fns[1].ret # elast.base

\* the last call, of the version of Wrapf named op, did what the contract of
\* Wrapf says
WrapfContract(op) ==
    LastWas(op) =>
        LET base == elast.base
            text == Sprintf(elast.msg, elast.args)
            res == elast.res
        IN  /\ base = Nil => res = Nil
            /\ (base # Nil /\ elast.msg = << >> /\ elast.args = << >>) =>
                  (res = base /\ ~elast.isNew)
            /\ (base # Nil /\ ~(elast.msg = << >> /\ elast.args = << >>)) =>
                  /\ elast.isNew
                  /\ res = Wrap(base, text, res.id)
                  /\ Message(res) = text \o ": " \o Message(base)
                  /\ Unwrap(res) = base

\* C30: Wrapf returns nil for a nil base, base itself when msg and args are
\* both empty, and else a new error with the message format(msg, args),
\* ": " and the message of base, whose predecessor is base, as Wrap of the
\* formatted message does; also for an empty msg with args and when args
\* and verbs differ in number.
C30_Wrapf == WrapfContract("Wrapf") /\ WrapfContract("WrapfW")

RECURSIVE RootsOf(_)
\* the roots that occur in e: e itself when it is a root, the roots of what
\* a wrapper wraps, of the components of an aggregate, of the value of a
\* Lazy
RootsOf(e) ==
    CASE e = Nil           -> {}
      [] e.kind = "root"   -> {e}
      [] e.kind = "wrap"   -> RootsOf(e.base)
      [] e.kind = "lazy"   -> RootsOf(e.fn.ret)
      [] OTHER             -> UNION {RootsOf(e.errs[i]) : i \in DOMAIN e.errs}

\* C24: an error built by nesting Join, Wrap and Lazy over roots matches
\* every root that occurs in it at any depth, also a root that only the
\* evaluation of a Lazy produces, and no root that occurs nowhere in it.
C24_IsRecurses ==
    \A e \in pool : \A r \in pool :
        r.kind = "root" => (Is(e, r) <=> r \in RootsOf(e))

\* an aggregate of a root and of a Lazy whose value is another root, beside
\* a third root that is nowhere in it
C24_Witness ==
    \E e \in pool : \E r \in pool :
        /\ e.kind = "multi"
        /\ Len(e.errs) = 2
        /\ e.errs[1].kind = "root"
        /\ e.errs[2].kind = "lazy"
        /\ e.errs[2].fn.ret # Nil
        /\ e.errs[2].fn.ret.kind = "root"
        /\ e.errs[2].fn.ret # e.errs[1]
        /\ Is(e, e.errs[2].fn.ret)
        /\ r.kind = "root"
        /\ r \notin RootsOf(e)
        /\ ~Is(e, r)

\* every error handed to the last call is nil
AllNil(errs) == \A i \in DOMAIN errs : errs[i] = Nil

\* the leaves of the errors of errs, from left to right
LeavesOfAll(errs) == Leaves([kind |-> "multi", errs |-> NonNil(errs)])

\* C31: Append returns the other argument itself when one is nil; Combine
\* leaves out the nil entries, drops nothing else and returns nil when all
\* entries are nil or there is none; WrapAppend, WrapfAppend and WrapCombine
\* return what Wrap or Wrapf returns for that combination, which is nil
\* when every combined error is nil, whatever the message.
C31_AppendCombine ==
    elast # NoCall =>
        LET errs == elast.errs
            res == elast.res
            comb == IF elast.op \in {"WrapAppend", "WrapfAppend"}
                    THEN AppendErr(errs[1], errs[2]) ELSE Combine(errs)
            id == IF elast.isNew THEN res.id ELSE nextId
        IN  /\ elast.op = "Append" =>
                  /\ errs[1] = Nil => res = errs[2]
                  /\ errs[2] = Nil => res = errs[1]
                  /\ Leaves(res) = LeavesOfAll(errs)
            /\ elast.op = "Combine" =>
                  /\ AllNil(errs) <=> res = Nil
                  /\ Leaves(res) = LeavesOfAll(errs)
            /\ elast.op \in {"WrapAppend", "WrapCombine"} =>
                  /\ res = Wrap(comb, elast.msg, id)
                  /\ AllNil(errs) => res = Nil
            /\ elast.op = "WrapfAppend" =>
                  /\ res = WrapfW(comb, elast.msg, elast.args, id)
                  /\ AllNil(errs) => res = Nil

\* WrapAppend of two nil errors with a message that is not empty, after
\* errors were built
C31_Witness ==
    /\ elast # NoCall
    /\ elast.op = "WrapAppend"
    /\ elast.errs = << Nil, Nil >>
    /\ elast.msg = "hello"
    /\ elast.res = Nil
    /\ pool # {}

====
